---- MODULE Spec2Model ----
(***************************************************************************)
(* Furnace-fan / HRV accessory of examples/Lightbulb/main/App.cpp: the     *)
(* Timer base class, AutoOffTimer, DutyCycleTimer, the effective-state     *)
(* resolver, UpdateOutputsAndNotify and the characteristic write handlers. *)
(*                                                                         *)
(* The program state is gathered in one record M (the "machine"); every    *)
(* C++ function is an operator from machine to machine, so that a handler  *)
(* with all the calls it makes is one atomic action.  Time is the          *)
(* millisecond tick of HAPPlatformClockGetCurrent.                         *)
(***************************************************************************)
EXTENDS Integers, Sequences, FiniteSets, TLC

\* ------------------------------------------------------------ constants

TICKS_PER_MIN == 60000
NULL_TIMER == 0
STATE_VERSION == 1
INVERT_OUTPUTS == TRUE
FIRE_MARGIN == 1000
SizeofState == 8
DefaultFanDutyCycle == 10
DefaultFanTimeoutMinutes == 60
\* kHAPCharacteristicValue_TargetFanState_Manual / _Auto
Manual == 0
Auto == 1

\* ------------------------------------------------------------ bounds

\* number of events (writes, expiries, time syncs, clock advances) after startup
MaxSteps == 5
\* the tick after which the clock is no longer advanced
MaxNow == 7500000

\* values of fanTimeoutMinutes written by the controller, in minutes
TimeoutVals == {0, 1, 2}
\* values of fanDutyCycle written by the controller, in percent
DutyVals == {0, 1, 100}
\* free-running clock advances, in ticks
Deltas == {59500, 1000}
\* (wall clock - tick clock) modulo one hour, as set by the time service
WallOffsets == {3540000, 3000000}

TimerNames == {"autoOff", "dutyCycle"}

VARIABLES
    pc,             \* "boot" before AppCreate, "run" after, "aborted" after HAPFatalError
    now,            \* HAPPlatformClockGetCurrent()
    wallOffset,     \* time(NULL)*1000 - now, modulo one hour
    state,          \* accessoryConfiguration.state
    kv,             \* the record in the key-value store
    tm,             \* the Timer fields of autoOffTimer and dutyCycleTimer
    dc,             \* the DutyCycleTimer fields minutes_start, fanActive
    host,           \* registrations pending in HAPPlatformTimer
    cache,          \* the statics fanActiveCache, hrvActiveCache
    gpio,           \* the level last driven on each output pin
    steps,          \* events handled since startup
    step,           \* what the last handler did (observation only)
    hist            \* history of the auto-off countdown (observation only)

vars == <<pc, now, wallOffset, state, kv, tm, dc, host, cache, gpio, steps,
          step, hist>>

\* ------------------------------------------------------------ values

ZeroState ==
    [version |-> 0, fanActiveManual |-> FALSE, fanActiveAuto |-> FALSE,
     fanTargetState |-> 0, fanTimeoutMinutes |-> 0, fanDutyCycle |-> 0,
     hrvActive |-> FALSE, hrvTargetState |-> 0]

ZeroTimer ==
    [timer |-> NULL_TIMER, running |-> FALSE, start_ticks |-> 0,
     stop_ticks |-> 0, timeout_ticks |-> 0]

NoStep ==
    [raised |-> <<>>, saves |-> 0, offRuns |-> 0, dcRuns |-> 0]

NoHist ==
    [startTick |-> -1, updates |-> 0, offRuns |-> 0,
     onDeadline |-> -1, tChanged |-> FALSE, phaseTick |-> -1]

Xor(a, b) == a # b

Min(S) == CHOOSE x \in S : \A y \in S : x <= y

Count(seq, e) == Cardinality({i \in 1..Len(seq) : seq[i] = e})

\* ------------------------------------------------------------ resolver

DutyCycleEnabledEffective(s) ==
    s.fanActiveAuto /\ s.fanTargetState = Auto

FanActiveEffective_ignoresMode(s) ==
    s.fanActiveManual \/ s.fanActiveAuto

FanActiveEffective(s) ==
    s.fanActiveManual \/ DutyCycleEnabledEffective(s)

HrvActiveEffective(s) ==
    s.hrvActive \/ (DutyCycleEnabledEffective(s) /\ s.hrvTargetState = Auto)

\* ------------------------------------------------------------ externals

\* HAPAccessoryServerRaiseEvent
RaiseEvent(M, c) ==
    IF M.pc = "aborted" THEN M
    ELSE [M EXCEPT !.step.raised = Append(@, c)]

\* gpio_set_level
gpio_set_level(M, pin, level) ==
    [M EXCEPT !.gpio[pin] = level]

\* HAPPlatformTimerRegister hands out a handle no pending registration uses
FreshId(h) == Min({i \in 1..(Cardinality(h) + 1) : \A r \in h : r.id # i})

\* ------------------------------------------------------------ outputs

\* mutant: raises the fan event on every refresh, changed or not
UpdateOutputsAndNotify_alwaysNotifies(M) ==
    IF M.pc = "aborted" THEN M
    ELSE
    LET fanActiveNew == FanActiveEffective(M.state)
        hrvActiveNew == HrvActiveEffective(M.state)
        M1 == gpio_set_level(M, "fan", Xor(fanActiveNew, INVERT_OUTPUTS))
        M2 == gpio_set_level(M1, "hrv", Xor(hrvActiveNew, INVERT_OUTPUTS))
        M3 == RaiseEvent([M2 EXCEPT !.cache.fan = fanActiveNew], "fanActive")
        M4 == IF hrvActiveNew # M3.cache.hrv
              THEN RaiseEvent([M3 EXCEPT !.cache.hrv = hrvActiveNew], "hrvActive")
              ELSE M3
    IN M4

UpdateOutputsAndNotify(M) ==
    IF M.pc = "aborted" THEN M
    ELSE
    LET fanActiveNew == FanActiveEffective(M.state)
        hrvActiveNew == HrvActiveEffective(M.state)
        M1 == gpio_set_level(M, "fan", Xor(fanActiveNew, INVERT_OUTPUTS))
        M2 == gpio_set_level(M1, "hrv", Xor(hrvActiveNew, INVERT_OUTPUTS))
        M3 == IF fanActiveNew # M2.cache.fan
              THEN RaiseEvent([M2 EXCEPT !.cache.fan = fanActiveNew], "fanActive")
              ELSE M2
        M4 == IF hrvActiveNew # M3.cache.hrv
              THEN RaiseEvent([M3 EXCEPT !.cache.hrv = hrvActiveNew], "hrvActive")
              ELSE M3
    IN M4

\* ------------------------------------------------------------ persistence

SaveAccessoryState(M) ==
    IF M.pc = "aborted" THEN M
    ELSE IF M.fault = "kv" THEN [M EXCEPT !.pc = "aborted"]
    ELSE [M EXCEPT !.kv = [found |-> TRUE, numBytes |-> SizeofState, rec |-> M.state],
                   !.step.saves = @ + 1]

\* mutant: keeps the demand bits the store held
LoadAccessoryState_keepsDemand(M) ==
    IF M.fault = "kv" THEN [M EXCEPT !.pc = "aborted"]
    ELSE
    LET found == M.kv.found
        loaded == IF found /\ M.kv.numBytes = SizeofState THEN M.kv.rec ELSE M.state
        s1 == IF ~found \/ M.kv.numBytes # SizeofState \/ loaded.version # STATE_VERSION
              THEN [ZeroState EXCEPT !.version = STATE_VERSION,
                                     !.fanTargetState = Manual,
                                     !.fanDutyCycle = DefaultFanDutyCycle,
                                     !.fanTimeoutMinutes = DefaultFanTimeoutMinutes]
              ELSE loaded
    IN [M EXCEPT !.state = s1]

LoadAccessoryState(M) ==
    IF M.fault = "kv" THEN [M EXCEPT !.pc = "aborted"]
    ELSE
    LET found == M.kv.found
        loaded == IF found /\ M.kv.numBytes = SizeofState THEN M.kv.rec ELSE M.state
        s1 == IF ~found \/ M.kv.numBytes # SizeofState \/ loaded.version # STATE_VERSION
              THEN [ZeroState EXCEPT !.version = STATE_VERSION,
                                     !.fanTargetState = Manual,
                                     !.fanDutyCycle = DefaultFanDutyCycle,
                                     !.fanTimeoutMinutes = DefaultFanTimeoutMinutes]
              ELSE loaded
    IN [M EXCEPT !.state = [s1 EXCEPT !.fanActiveAuto = FALSE,
                                      !.fanActiveManual = FALSE,
                                      !.hrvActive = FALSE]]

\* ------------------------------------------------------------ Timer

\* HAPPlatformTimerDeregister
TimerDeregister(h, id) == {r \in h : r.id # id}

Timer_stop(M, who) ==
    IF M.tm[who].running
    THEN [M EXCEPT !.tm[who].running = FALSE,
                   !.host = TimerDeregister(@, M.tm[who].timer),
                   !.tm[who].timer = NULL_TIMER]
    ELSE M

\* mutant: registers the new deadline without cancelling the pending one
Timer_start_once_keepsPending(M, who, _timeout_ticks) ==
    LET M2 == [M EXCEPT !.tm[who].timeout_ticks = _timeout_ticks,
                        !.tm[who].start_ticks = M.now,
                        !.tm[who].stop_ticks = M.now + _timeout_ticks]
        id == FreshId(M2.host)
    IN [M2 EXCEPT !.host = @ \cup {[id |-> id, owner |-> who,
                                    deadline |-> M2.tm[who].stop_ticks]},
                  !.tm[who].timer = id,
                  !.tm[who].running = TRUE]

\* mutant: a failed registration is logged and the caller carries on
Timer_start_once_ignoresError(M, who, _timeout_ticks) ==
    LET M1 == Timer_stop(M, who)
        M2 == [M1 EXCEPT !.tm[who].timeout_ticks = _timeout_ticks,
                         !.tm[who].start_ticks = M.now,
                         !.tm[who].stop_ticks = M.now + _timeout_ticks]
        id == FreshId(M2.host)
    IN IF M.fault = "timer"
       THEN M2
       ELSE [M2 EXCEPT !.host = @ \cup {[id |-> id, owner |-> who,
                                         deadline |-> M2.tm[who].stop_ticks]},
                       !.tm[who].timer = id,
                       !.tm[who].running = TRUE]

Timer_start_once(M, who, _timeout_ticks) ==
    LET M1 == Timer_stop(M, who)
        M2 == [M1 EXCEPT !.tm[who].timeout_ticks = _timeout_ticks,
                         !.tm[who].start_ticks = M.now,
                         !.tm[who].stop_ticks = M.now + _timeout_ticks]
        id == FreshId(M2.host)
    IN IF M.fault = "timer"
       THEN [M2 EXCEPT !.pc = "aborted"]
       ELSE [M2 EXCEPT !.host = @ \cup {[id |-> id, owner |-> who,
                                         deadline |-> M2.tm[who].stop_ticks]},
                       !.tm[who].timer = id,
                       !.tm[who].running = TRUE]

\* ------------------------------------------------------------ AutoOffTimer

\* mutant: clears the demand bits but leaves the outputs as they were
AutoOffTimer_callback_staleOutputs(M) ==
    [M EXCEPT !.state.fanActiveManual = FALSE,
              !.state.hrvActive = FALSE,
              !.step.offRuns = @ + 1,
              !.hist.offRuns = IF @ < 2 THEN @ + 1 ELSE @]

\* mutant: the expiry also withdraws the duty-cycle demand
AutoOffTimer_callback_clearsAuto(M) ==
    UpdateOutputsAndNotify(
        [M EXCEPT !.state.fanActiveManual = FALSE,
                  !.state.fanActiveAuto = FALSE,
                  !.state.hrvActive = FALSE,
                  !.step.offRuns = @ + 1,
                  !.hist.offRuns = IF @ < 2 THEN @ + 1 ELSE @])

\* mutant: the expiry withdraws the fan demand and leaves the HRV demand
AutoOffTimer_callback_fanOnly(M) ==
    UpdateOutputsAndNotify(
        [M EXCEPT !.state.fanActiveManual = FALSE,
                  !.step.offRuns = @ + 1,
                  !.hist.offRuns = IF @ < 2 THEN @ + 1 ELSE @])

AutoOffTimer_callback(M) ==
    UpdateOutputsAndNotify(
        [M EXCEPT !.state.fanActiveManual = FALSE,
                  !.state.hrvActive = FALSE,
                  !.step.offRuns = @ + 1,
                  !.hist.offRuns = IF @ < 2 THEN @ + 1 ELSE @])

\* ------------------------------------------------------------ DutyCycleTimer

\* localtime(time(NULL)): minute and second of the wall clock
tm_min(M) == (((M.now + M.wallOffset) \div 1000) \div 60) % 60
tm_sec(M) == ((M.now + M.wallOffset) \div 1000) % 60

\* ---- IEEE-754 single precision, as the off branch of start_next computes.
\* A float is a pair <<m, s>> standing for m / 2^s, with m < 2^24 + 1.

Pow2(n) == IF n <= 0 THEN 1 ELSE 2 ^ n

\* n / d rounded to the nearest integer, ties to even
RoundDiv(n, d) ==
    LET q == n \div d
        r == n % d
    IN IF 2 * r < d THEN q
       ELSE IF 2 * r > d THEN q + 1
       ELSE IF q % 2 = 0 THEN q ELSE q + 1

\* the number of bits of n
BitLen(n) == Min({b \in 0..30 : n < Pow2(b)})

\* tm_sec / 60.0f, for tm_sec in 1..59
F32SecOver60(sec) ==
    LET k == Min({j \in 24..29 : sec * Pow2(j - 23) >= 60})
    IN <<RoundDiv(sec * Pow2(k), 60), k>>

\* tm_min + tm_sec / 60.0f
F32MinPlus(min, a) ==
    IF min = 0 THEN a
    ELSE LET s == 24 - BitLen(min)
         IN <<min * Pow2(s) + RoundDiv(a[1], Pow2(a[2] - s)), s>>

\* timeout += 60, for the timeout -f of minutes_start = 0
F32SixtyMinus(f) ==
    IF f[2] >= 18 /\ f[1] \div Pow2(f[2]) < 28
    THEN <<60 * Pow2(18) - RoundDiv(f[1], Pow2(f[2] - 18)), 18>>
    ELSE <<60 * Pow2(f[2]) - f[1], f[2]>>

\* (uint64_t)(timeout * TICKS_PER_MIN): TICKS_PER_MIN = 1875 * 2^5
F32TimesTicksPerMin(f) ==
    LET hi == f[1] \div 4096
        lo == f[1] % 4096
        top == hi * 1875 + (lo * 1875) \div 4096
        low == (lo * 1875) % 4096
        drop == IF BitLen(top) > 12 THEN BitLen(top) - 12 ELSE 0
        r == top * Pow2(12 - drop) + RoundDiv(low, Pow2(drop))
        e == drop + 5 - f[2]
    IN IF e >= 0 THEN r * Pow2(e) ELSE r \div Pow2(0 - e)

\* mutant: a full hour whatever the wall clock reads
OffPhaseTimeoutTicks_fullHour(min, sec) == 60 * TICKS_PER_MIN

\* (uint64_t)(timeout * TICKS_PER_MIN) of the off branch of start_next, where
\* timeout = minutes_start - (tm_min + tm_sec/60.0f), plus 60 when <= 0.
\* minutes_start is 0 from its initialiser on: the program never assigns it,
\* so timeout is never positive before the correction.
OffPhaseTimeoutTicks(min, sec) ==
    LET a == IF sec = 0 THEN <<0, 0>> ELSE F32SecOver60(sec)
        f == IF sec = 0 THEN <<min, 0>> ELSE F32MinPlus(min, a)
    IN F32TimesTicksPerMin(F32SixtyMinus(f))

\* mutant: a percentage of a minute instead of a percentage of the hour
OnPhaseTimeoutTicks_ofMinute(fanDutyCycle) ==
    (fanDutyCycle * TICKS_PER_MIN) \div 100

OnPhaseTimeoutTicks(fanDutyCycle) ==
    (fanDutyCycle * TICKS_PER_MIN * 60) \div 100

DutyCycleTimer_start_next(M) ==
    LET t == IF M.dc.fanActive
             THEN OnPhaseTimeoutTicks(M.state.fanDutyCycle)
             ELSE OffPhaseTimeoutTicks(tm_min(M), tm_sec(M))
    IN Timer_start_once([M EXCEPT !.tm["dutyCycle"].timeout_ticks = t], "dutyCycle", t)

\* mutant: toggles the phase but does not arm the next one
DutyCycleTimer_callback_noRearm(M) ==
    LET M0 == [M EXCEPT !.step.dcRuns = @ + 1]
        M1 == IF M0.dc.fanActive
              THEN [M0 EXCEPT !.dc.fanActive = FALSE, !.state.fanActiveAuto = FALSE,
                              !.hist.phaseTick = -1]
              ELSE IF M0.state.fanDutyCycle > 0
              THEN [M0 EXCEPT !.dc.fanActive = TRUE, !.state.fanActiveAuto = TRUE,
                              !.hist.phaseTick = M.now]
              ELSE M0
    IN UpdateOutputsAndNotify(M1)

\* mutant: arms the next phase before the outputs are driven
DutyCycleTimer_callback_armsFirst(M) ==
    LET M0 == [M EXCEPT !.step.dcRuns = @ + 1]
        M1 == IF M0.dc.fanActive
              THEN [M0 EXCEPT !.dc.fanActive = FALSE, !.state.fanActiveAuto = FALSE,
                              !.hist.phaseTick = -1]
              ELSE IF M0.state.fanDutyCycle > 0
              THEN [M0 EXCEPT !.dc.fanActive = TRUE, !.state.fanActiveAuto = TRUE,
                              !.hist.phaseTick = M.now]
              ELSE M0
    IN UpdateOutputsAndNotify(DutyCycleTimer_start_next(M1))

\* mutant: enters the on-phase whatever fanDutyCycle is
DutyCycleTimer_callback_ignoresZero(M) ==
    LET M0 == [M EXCEPT !.step.dcRuns = @ + 1]
        M1 == IF M0.dc.fanActive
              THEN [M0 EXCEPT !.dc.fanActive = FALSE, !.state.fanActiveAuto = FALSE,
                              !.hist.phaseTick = -1]
              ELSE [M0 EXCEPT !.dc.fanActive = TRUE, !.state.fanActiveAuto = TRUE,
                              !.hist.phaseTick = M.now]
    IN DutyCycleTimer_start_next(UpdateOutputsAndNotify(M1))

\* mutant: a suppressed on-phase leaves the timer stopped
DutyCycleTimer_callback_stopsAtZero(M) ==
    LET M0 == [M EXCEPT !.step.dcRuns = @ + 1]
        M1 == IF M0.dc.fanActive
              THEN [M0 EXCEPT !.dc.fanActive = FALSE, !.state.fanActiveAuto = FALSE,
                              !.hist.phaseTick = -1]
              ELSE IF M0.state.fanDutyCycle > 0
              THEN [M0 EXCEPT !.dc.fanActive = TRUE, !.state.fanActiveAuto = TRUE,
                              !.hist.phaseTick = M.now]
              ELSE M0
    IN IF ~M.dc.fanActive /\ M.state.fanDutyCycle = 0
       THEN UpdateOutputsAndNotify(M1)
       ELSE DutyCycleTimer_start_next(UpdateOutputsAndNotify(M1))

\* mutant: the end of the on-phase leaves fanActiveAuto set
DutyCycleTimer_callback_keepsAuto(M) ==
    LET M0 == [M EXCEPT !.step.dcRuns = @ + 1]
        M1 == IF M0.dc.fanActive
              THEN [M0 EXCEPT !.dc.fanActive = FALSE, !.hist.phaseTick = -1]
              ELSE IF M0.state.fanDutyCycle > 0
              THEN [M0 EXCEPT !.dc.fanActive = TRUE, !.state.fanActiveAuto = TRUE,
                              !.hist.phaseTick = M.now]
              ELSE M0
    IN DutyCycleTimer_start_next(UpdateOutputsAndNotify(M1))

DutyCycleTimer_callback(M) ==
    LET M0 == [M EXCEPT !.step.dcRuns = @ + 1]
        M1 == IF M0.dc.fanActive
              THEN [M0 EXCEPT !.dc.fanActive = FALSE, !.state.fanActiveAuto = FALSE,
                              !.hist.phaseTick = -1]
              ELSE IF M0.state.fanDutyCycle > 0
              THEN [M0 EXCEPT !.dc.fanActive = TRUE, !.state.fanActiveAuto = TRUE,
                              !.hist.phaseTick = M.now]
              ELSE M0
    IN DutyCycleTimer_start_next(UpdateOutputsAndNotify(M1))

\* the virtual call callback() of the Timer base class
Timer_callback(M, who) ==
    IF who = "autoOff" THEN AutoOffTimer_callback(M) ELSE DutyCycleTimer_callback(M)

\* mutant: a deadline still ahead is cancelled and not registered again
Timer_update_timeout_stopsOnly(M, who, _timeout_ticks) ==
    IF ~M.tm[who].running THEN M
    ELSE
    LET M1 == Timer_stop(M, who)
        stop == M1.tm[who].start_ticks + _timeout_ticks
        M2 == [M1 EXCEPT !.tm[who].timeout_ticks = _timeout_ticks,
                         !.tm[who].stop_ticks = stop]
    IN IF stop < M.now + FIRE_MARGIN
       THEN Timer_callback(M2, who)
       ELSE M2

Timer_update_timeout(M, who, _timeout_ticks) ==
    IF ~M.tm[who].running THEN M
    ELSE
    LET M1 == Timer_stop(M, who)
        stop == M1.tm[who].start_ticks + _timeout_ticks
        M2 == [M1 EXCEPT !.tm[who].timeout_ticks = _timeout_ticks,
                         !.tm[who].stop_ticks = stop]
    IN IF stop < M.now + FIRE_MARGIN
       THEN Timer_callback(M2, who)
       ELSE Timer_start_once([M2 EXCEPT !.tm[who].timeout_ticks = stop - M.now],
                             who, stop - M.now)

\* mutant: runs the callback without clearing the running flag
Timer_static_callback_staysRunning(M, who) ==
    Timer_callback(M, who)

Timer_static_callback(M, who) ==
    Timer_callback([M EXCEPT !.tm[who].running = FALSE], who)

\* mutant: takes fanTimeoutMinutes as seconds
AutoOffTimer_start_seconds(M) ==
    LET t == M.state.fanTimeoutMinutes * 1000
        M1 == [M EXCEPT !.tm["autoOff"].timeout_ticks = t,
                        !.hist.startTick = M.now,
                        !.hist.updates = 0,
                        !.hist.offRuns = 0]
    IN Timer_start_once(M1, "autoOff", t)

AutoOffTimer_start(M) ==
    LET t == M.state.fanTimeoutMinutes * TICKS_PER_MIN
        M1 == [M EXCEPT !.tm["autoOff"].timeout_ticks = t,
                        !.hist.startTick = M.now,
                        !.hist.updates = 0,
                        !.hist.offRuns = 0]
    IN Timer_start_once(M1, "autoOff", t)

AutoOffTimer_update_timeout(M) ==
    LET t == M.state.fanTimeoutMinutes * TICKS_PER_MIN
        M1 == [M EXCEPT !.tm["autoOff"].timeout_ticks = t,
                        !.hist.updates = IF M.tm["autoOff"].running /\ @ < 2
                                         THEN @ + 1 ELSE @]
    IN Timer_update_timeout(M1, "autoOff", t)

DutyCycleTimer_start(M) == DutyCycleTimer_start_next(M)

\* mutant: a clock sync during the on-phase asserts the duty-cycle demand again
DutyCycleTimer_time_changed_callback_reasserts(M) ==
    IF M.dc.fanActive
    THEN UpdateOutputsAndNotify([M EXCEPT !.state.fanActiveAuto = TRUE])
    ELSE DutyCycleTimer_start_next(Timer_stop(M, "dutyCycle"))

\* mutant: restarts the timer in the on-phase as well
DutyCycleTimer_time_changed_callback_anyPhase(M) ==
    DutyCycleTimer_start_next(Timer_stop(M, "dutyCycle"))

DutyCycleTimer_time_changed_callback(M) ==
    IF M.dc.fanActive THEN M
    ELSE DutyCycleTimer_start_next(Timer_stop(M, "dutyCycle"))

\* mutant: the timer takes no notice of a changed duty cycle
DutyCycleTimer_duty_cycle_changed_callback_unheeded(M) == M

\* mutant: recomputes the deadline in the off-phase as well
DutyCycleTimer_duty_cycle_changed_callback_anyPhase(M) ==
    LET t == OnPhaseTimeoutTicks(M.state.fanDutyCycle)
    IN Timer_update_timeout([M EXCEPT !.tm["dutyCycle"].timeout_ticks = t],
                            "dutyCycle", t)

DutyCycleTimer_duty_cycle_changed_callback(M) ==
    IF M.dc.fanActive
    THEN LET t == OnPhaseTimeoutTicks(M.state.fanDutyCycle)
         IN Timer_update_timeout([M EXCEPT !.tm["dutyCycle"].timeout_ticks = t],
                                 "dutyCycle", t)
    ELSE M

sntp_sync_callback(M) == DutyCycleTimer_time_changed_callback(M)

\* ------------------------------------------------------------ write handlers

\* mutant: the off write leaves the HRV demand standing
HandleFurnaceFanActiveOnWrite_keepsHrv(M, value) ==
    IF value # 0
    THEN LET changed == ~M.state.fanActiveManual
             M1 == [M EXCEPT !.state.fanActiveManual = TRUE,
                             !.hist.onDeadline =
                                 M.now + M.state.fanTimeoutMinutes * TICKS_PER_MIN,
                             !.hist.tChanged = FALSE]
             M2 == AutoOffTimer_start(M1)
         IN IF changed THEN UpdateOutputsAndNotify(SaveAccessoryState(M2)) ELSE M2
    ELSE IF FanActiveEffective(M.state)
         THEN UpdateOutputsAndNotify(SaveAccessoryState(
                  [M EXCEPT !.state.fanActiveManual = FALSE,
                            !.state.fanActiveAuto = FALSE]))
         ELSE M

\* mutant: the off write leaves the duty-cycle demand standing
HandleFurnaceFanActiveOnWrite_keepsAuto(M, value) ==
    IF value # 0
    THEN LET changed == ~M.state.fanActiveManual
             M1 == [M EXCEPT !.state.fanActiveManual = TRUE,
                             !.hist.onDeadline =
                                 M.now + M.state.fanTimeoutMinutes * TICKS_PER_MIN,
                             !.hist.tChanged = FALSE]
             M2 == AutoOffTimer_start(M1)
         IN IF changed THEN UpdateOutputsAndNotify(SaveAccessoryState(M2)) ELSE M2
    ELSE IF FanActiveEffective(M.state)
         THEN UpdateOutputsAndNotify(SaveAccessoryState(
                  [M EXCEPT !.state.fanActiveManual = FALSE,
                            !.state.hrvActive = FALSE]))
         ELSE M

HandleFurnaceFanActiveOnWrite(M, value) ==
    IF value # 0
    THEN LET changed == ~M.state.fanActiveManual
             M1 == [M EXCEPT !.state.fanActiveManual = TRUE,
                             !.hist.onDeadline =
                                 M.now + M.state.fanTimeoutMinutes * TICKS_PER_MIN,
                             !.hist.tChanged = FALSE]
             M2 == AutoOffTimer_start(M1)
         IN IF changed THEN UpdateOutputsAndNotify(SaveAccessoryState(M2)) ELSE M2
    ELSE IF FanActiveEffective(M.state)
         THEN UpdateOutputsAndNotify(SaveAccessoryState(
                  [M EXCEPT !.state.fanActiveManual = FALSE,
                                     !.state.fanActiveAuto = FALSE,
                                     !.state.hrvActive = FALSE]))
         ELSE M

\* mutant: the mode is stored and saved, the outputs are left as they were
HandleFurnaceFanTargetFanStateOnWrite_staleOutputs(M, value) ==
    IF M.state.fanTargetState # value
    THEN RaiseEvent(SaveAccessoryState(
             [M EXCEPT !.state.fanTargetState = value]), "fanTargetState")
    ELSE M

HandleFurnaceFanTargetFanStateOnWrite(M, value) ==
    IF M.state.fanTargetState # value
    THEN RaiseEvent(UpdateOutputsAndNotify(SaveAccessoryState(
             [M EXCEPT !.state.fanTargetState = value])), "fanTargetState")
    ELSE M

\* mutant: stores the written timeout in the duty-cycle field as well
HandleFurnaceFanTimeoutOnWrite_writesDuty(M, value) ==
    IF M.state.fanTimeoutMinutes # value
    THEN LET M1 == SaveAccessoryState([M EXCEPT !.state.fanTimeoutMinutes = value,
                                                !.state.fanDutyCycle = value,
                                                !.hist.tChanged = TRUE])
         IN IF M1.pc = "aborted" THEN M1
            ELSE RaiseEvent(AutoOffTimer_update_timeout(M1), "fanTimeout")
    ELSE M

HandleFurnaceFanTimeoutOnWrite(M, value) ==
    IF M.state.fanTimeoutMinutes # value
    THEN LET M1 == SaveAccessoryState([M EXCEPT !.state.fanTimeoutMinutes = value,
                                                !.hist.tChanged = TRUE])
         IN IF M1.pc = "aborted" THEN M1
            ELSE RaiseEvent(AutoOffTimer_update_timeout(M1), "fanTimeout")
    ELSE M

\* mutant: the written duty cycle is not saved
HandleFurnaceFanDutyCycleOnWrite_noSave(M, value) ==
    IF M.state.fanDutyCycle # value
    THEN LET M1 == [M EXCEPT !.state.fanDutyCycle = value]
         IN RaiseEvent(DutyCycleTimer_duty_cycle_changed_callback(M1), "fanDutyCycle")
    ELSE M

HandleFurnaceFanDutyCycleOnWrite(M, value) ==
    IF M.state.fanDutyCycle # value
    THEN LET M1 == SaveAccessoryState([M EXCEPT !.state.fanDutyCycle = value])
         IN IF M1.pc = "aborted" THEN M1
            ELSE RaiseEvent(DutyCycleTimer_duty_cycle_changed_callback(M1), "fanDutyCycle")
    ELSE M

\* mutant: compares the written value with the manual demand bit
HandleHrvActiveOnWrite_comparesDemand(M, value) ==
    LET oldValue == M.state.hrvActive
    IN IF oldValue # (value # 0)
       THEN LET M1 == [M EXCEPT !.state.hrvActive = (value # 0)]
                M2 == IF value # 0
                      THEN AutoOffTimer_start([M1 EXCEPT !.state.fanActiveManual = TRUE])
                      ELSE IF HrvActiveEffective(M1.state)
                      THEN [M1 EXCEPT !.state.fanActiveAuto = FALSE]
                      ELSE M1
            IN UpdateOutputsAndNotify(SaveAccessoryState(M2))
       ELSE M

\* mutant: the HRV-on write sets the fan demand without starting the countdown
HandleHrvActiveOnWrite_noCountdown(M, value) ==
    LET oldValue == HrvActiveEffective(M.state)
    IN IF oldValue # (value # 0)
       THEN LET M1 == [M EXCEPT !.state.hrvActive = (value # 0)]
                M2 == IF value # 0
                      THEN [M1 EXCEPT !.state.fanActiveManual = TRUE]
                      ELSE IF HrvActiveEffective(M1.state)
                      THEN [M1 EXCEPT !.state.fanActiveAuto = FALSE]
                      ELSE M1
            IN UpdateOutputsAndNotify(SaveAccessoryState(M2))
       ELSE M

HandleHrvActiveOnWrite(M, value) ==
    LET oldValue == HrvActiveEffective(M.state)
    IN IF oldValue # (value # 0)
       THEN LET M1 == [M EXCEPT !.state.hrvActive = (value # 0)]
                M2 == IF value # 0
                      THEN AutoOffTimer_start([M1 EXCEPT !.state.fanActiveManual = TRUE])
                      ELSE IF HrvActiveEffective(M1.state)
                      THEN [M1 EXCEPT !.state.fanActiveAuto = FALSE]
                      ELSE M1
            IN UpdateOutputsAndNotify(SaveAccessoryState(M2))
       ELSE M

HandleHrvTargetFanStateOnWrite(M, value) ==
    IF M.state.hrvTargetState # value
    THEN RaiseEvent(UpdateOutputsAndNotify(SaveAccessoryState(
             [M EXCEPT !.state.hrvTargetState = value])), "hrvTargetState")
    ELSE M

AppCreate(M) ==
    LET M1 == gpio_set_level(M, "fan", INVERT_OUTPUTS)
        M2 == gpio_set_level(M1, "hrv", INVERT_OUTPUTS)
        M3 == LoadAccessoryState([M2 EXCEPT !.state = ZeroState])
    IN IF M3.pc = "aborted" THEN M3 ELSE [M3 EXCEPT !.pc = "run"]

\* ------------------------------------------------------------ the state machine

Faults == {"none", "timer", "kv"}
NoFaults == {"none"}

\* the machine a handler starts from: the current state, an empty step record
Cur(fault) ==
    [pc |-> pc, now |-> now, wallOffset |-> wallOffset, state |-> state, kv |-> kv,
     tm |-> tm, dc |-> dc, host |-> host, cache |-> cache, gpio |-> gpio,
     hist |-> hist, fault |-> fault,
     step |-> NoStep]

Commit(M) ==
    /\ pc' = M.pc
    /\ state' = M.state
    /\ kv' = M.kv
    /\ tm' = M.tm
    /\ dc' = M.dc
    /\ host' = M.host
    /\ cache' = M.cache
    /\ gpio' = M.gpio
    /\ step' = M.step
    /\ hist' = M.hist
    /\ UNCHANGED <<now, wallOffset>>

\* what the store may hold when the process starts
StoredRecords ==
    [version : {STATE_VERSION},
     fanActiveManual : {TRUE}, fanActiveAuto : {TRUE}, fanTargetState : {Auto},
     fanTimeoutMinutes : {1}, fanDutyCycle : {0, 100},
     hrvActive : {TRUE}, hrvTargetState : {Auto}]

InitStores ==
    [found : {TRUE}, numBytes : {SizeofState}, rec : StoredRecords]

Init ==
    /\ pc = "boot"
    /\ now = 0
    /\ wallOffset \in WallOffsets
    /\ state = ZeroState
    /\ kv \in InitStores
    /\ tm = [w \in TimerNames |-> ZeroTimer]
    /\ dc = [minutes_start |-> 0, fanActive |-> FALSE]
    /\ host = {}
    /\ cache = [fan |-> FALSE, hrv |-> FALSE]
    /\ gpio \in [{"fan", "hrv"} -> BOOLEAN]
    /\ steps = 0
    /\ step = NoStep
    /\ hist = NoHist

Boot(F) ==
    /\ pc = "boot"
    /\ steps' = steps
    /\ \E f \in F : Commit(AppCreate(Cur(f)))

WriteFanActive(F) ==
    /\ pc = "run"
    /\ steps < MaxSteps
    /\ steps' = steps + 1
    /\ \E v \in {0, 1}, f \in F :
         Commit(HandleFurnaceFanActiveOnWrite(Cur(f), v))

WriteFanTargetState(F) ==
    /\ pc = "run"
    /\ steps < MaxSteps
    /\ steps' = steps + 1
    /\ \E v \in {Manual, Auto}, f \in F :
         Commit(HandleFurnaceFanTargetFanStateOnWrite(Cur(f), v))

WriteFanTimeout(F) ==
    /\ pc = "run"
    /\ steps < MaxSteps
    /\ steps' = steps + 1
    /\ \E v \in TimeoutVals, f \in F :
         Commit(HandleFurnaceFanTimeoutOnWrite(Cur(f), v))

WriteFanDutyCycle(F) ==
    /\ pc = "run"
    /\ steps < MaxSteps
    /\ steps' = steps + 1
    /\ \E v \in DutyVals, f \in F :
         Commit(HandleFurnaceFanDutyCycleOnWrite(Cur(f), v))

WriteHrvActive(F) ==
    /\ pc = "run"
    /\ steps < MaxSteps
    /\ steps' = steps + 1
    /\ \E v \in {0, 1}, f \in F :
         Commit(HandleHrvActiveOnWrite(Cur(f), v))

WriteHrvTargetState(F) ==
    /\ pc = "run"
    /\ steps < MaxSteps
    /\ steps' = steps + 1
    /\ \E v \in {Manual, Auto}, f \in F :
         Commit(HandleHrvTargetFanStateOnWrite(Cur(f), v))

\* the time service corrects the wall clock and notifies the application
TimeSync(F) ==
    /\ pc = "run"
    /\ steps < MaxSteps
    /\ steps' = steps + 1
    /\ \E w \in WallOffsets, f \in F :
         LET M == sntp_sync_callback([Cur(f) EXCEPT !.wallOffset = w])
         IN /\ pc' = M.pc /\ state' = M.state /\ kv' = M.kv /\ tm' = M.tm
            /\ dc' = M.dc /\ host' = M.host /\ cache' = M.cache /\ gpio' = M.gpio
            /\ step' = M.step /\ hist' = M.hist /\ wallOffset' = w
            /\ UNCHANGED now

\* HAPPlatformTimer delivers a registration whose deadline has come
TimerExpire(F) ==
    /\ pc = "run"
    /\ steps < MaxSteps
    /\ steps' = steps + 1
    /\ \E r \in host, f \in F :
         /\ r.deadline <= now
         /\ Commit(Timer_static_callback(
                [Cur(f) EXCEPT !.host = TimerDeregister(@, r.id)], r.owner))

\* the clock runs on; no registration is left behind its deadline
Advance ==
    /\ pc = "run"
    /\ steps < MaxSteps
    /\ steps' = steps + 1
    /\ \E d \in Deltas :
         /\ now + d <= MaxNow
         /\ \A r \in host : r.deadline >= now + d
         /\ now' = now + d
    /\ step' = NoStep
    /\ UNCHANGED <<pc, wallOffset, state, kv, tm, dc, host, cache, gpio, hist>>

\* the clock runs on to the next deadline
AdvanceToDeadline ==
    /\ pc = "run"
    /\ steps < MaxSteps
    /\ steps' = steps + 1
    /\ host # {}
    /\ LET next == Min({r.deadline : r \in host})
       IN /\ next > now
          /\ next <= MaxNow
          /\ now' = next
    /\ step' = NoStep
    /\ UNCHANGED <<pc, wallOffset, state, kv, tm, dc, host, cache, gpio, hist>>

Next ==
    \/ Boot(NoFaults)
    \/ WriteFanActive(NoFaults)
    \/ WriteFanTargetState(NoFaults)
    \/ WriteFanTimeout(NoFaults)
    \/ WriteFanDutyCycle(NoFaults)
    \/ WriteHrvActive(NoFaults)
    \/ WriteHrvTargetState(NoFaults)
    \/ TimeSync(NoFaults)
    \/ TimerExpire(NoFaults)
    \/ Advance
    \/ AdvanceToDeadline

Spec == Init /\ [][Next]_vars

\* ------------------------------------------------------------ resolver inputs

\* every combination of the demand bits and mode selectors
ResolverInputs ==
    [version : {STATE_VERSION},
     fanActiveManual : BOOLEAN, fanActiveAuto : BOOLEAN,
     fanTargetState : {Manual, Auto},
     fanTimeoutMinutes : TimeoutVals, fanDutyCycle : {0},
     hrvActive : BOOLEAN, hrvTargetState : {Manual, Auto}]

InitResolver ==
    /\ pc = "run"
    /\ now = 0
    /\ wallOffset = 0
    /\ state \in ResolverInputs
    /\ kv = [found |-> FALSE, numBytes |-> 0, rec |-> ZeroState]
    /\ tm = [w \in TimerNames |-> ZeroTimer]
    /\ dc = [minutes_start |-> 0, fanActive |-> FALSE]
    /\ host = {}
    /\ cache \in [{"fan", "hrv"} -> BOOLEAN]
    /\ gpio = [p \in {"fan", "hrv"} |-> INVERT_OUTPUTS]
    /\ steps = 0
    /\ step = NoStep
    /\ hist = NoHist

Resolve ==
    /\ steps = 0
    /\ steps' = 1
    /\ Commit(UpdateOutputsAndNotify(Cur("none")))

SpecResolver == InitResolver /\ [][Resolve]_vars

\* ------------------------------------------------------------ claims

Here == Cur("none")

Regs(h, who) == {r \in h : r.owner = who}

\* the output is energized when its pin is at the active level
Energized(pin) == Xor(gpio[pin], INVERT_OUTPUTS)

\* C1: for every combination of the demand bits and mode selectors,
\* FanActiveEffective is fanActiveManual or (fanActiveAuto and fanTargetState
\* = Auto), and HrvActiveEffective is hrvActive or (fanActiveAuto and
\* fanTargetState = Auto and hrvTargetState = Auto); the outputs driven from
\* them carry these values.
C1_Resolver ==
    LET fan == state.fanActiveManual
               \/ (state.fanActiveAuto /\ state.fanTargetState = Auto)
        hrv == state.hrvActive
               \/ (state.fanActiveAuto /\ state.fanTargetState = Auto
                   /\ state.hrvTargetState = Auto)
    IN /\ FanActiveEffective(state) = fan
       /\ HrvActiveEffective(state) = hrv
       /\ steps = 1 => /\ Energized("fan") = fan /\ Energized("hrv") = hrv
                       /\ cache.fan = fan /\ cache.hrv = hrv

C1_Witness ==
    /\ steps = 1
    /\ ~state.fanActiveManual /\ state.fanActiveAuto /\ state.fanTargetState = Auto
    /\ ~state.hrvActive /\ state.hrvTargetState = Auto
    /\ Energized("fan") /\ Energized("hrv")
    /\ step.raised = <<"fanActive", "hrvActive">>

\* C2: in every quiescent state the level driven on each output and the cached
\* previous values equal the current effective values.
C2_OutputsFresh ==
    pc = "run" =>
        /\ cache.fan = FanActiveEffective(state)
        /\ cache.hrv = HrvActiveEffective(state)
        /\ Energized("fan") = FanActiveEffective(state)
        /\ Energized("hrv") = HrvActiveEffective(state)

\* the auto-off timer has expired under a fan that the duty cycle keeps on
C2_Witness ==
    /\ pc = "run"
    /\ step.offRuns = 1
    /\ ~state.fanActiveManual
    /\ FanActiveEffective(state)
    /\ Energized("fan")

\* C3: a step raises the fan-active (HRV-active) event exactly once when the
\* effective fan (HRV) value differs from its value before the step, and not
\* at all when it is the same.
C3_NotifyOncePerChange ==
    [][pc' = "run" =>
         /\ Count(step'.raised, "fanActive") =
                IF FanActiveEffective(state') # FanActiveEffective(state) THEN 1 ELSE 0
         /\ Count(step'.raised, "hrvActive") =
                IF HrvActiveEffective(state') # HrvActiveEffective(state) THEN 1 ELSE 0]_vars

\* a manual fan-on write (it saved, and started the countdown now) on a fan that
\* was already on through the duty cycle: no event
C3_Witness ==
    /\ pc = "run"
    /\ state.fanActiveManual
    /\ DutyCycleEnabledEffective(state)
    /\ step.saves = 1
    /\ step.raised = <<>>
    /\ hist.startTick = now
    /\ tm["autoOff"].running

\* the run of the manual fan-on write handler in the current state
FanOnHere == HandleFurnaceFanActiveOnWrite(Here, 1)

\* the auto-off timer of machine M is armed for exactly the tick `deadline`
ArmedAt(M, who, deadline) ==
    /\ M.tm[who].running
    /\ M.tm[who].stop_ticks = deadline
    /\ \E r \in M.host : Regs(M.host, who) = {r} /\ r.deadline = deadline
                         /\ r.id = M.tm[who].timer

Idle(M, who) == ~M.tm[who].running /\ Regs(M.host, who) = {}

\* C4: a manual fan-on write at tick t with fanTimeoutMinutes = T makes the fan
\* effective at once and arms the auto-off timer for t + T*60000; with no
\* timeout write in between, the auto-off callback runs exactly once, at that
\* tick; from then on fanActiveManual, hrvActive are false, the fan is
\* effective only through the duty cycle, and the timer is idle.
C4_FanOnThenAutoOff ==
    /\ [](pc = "run" =>
            /\ FanActiveEffective(FanOnHere.state)
            /\ ~state.fanActiveManual =>
                   ArmedAt(FanOnHere, "autoOff",
                           now + state.fanTimeoutMinutes * TICKS_PER_MIN)
            /\ (hist.startTick >= 0 /\ hist.offRuns = 0 /\ hist.updates = 0) =>
                   ArmedAt(Here, "autoOff",
                           hist.startTick + state.fanTimeoutMinutes * TICKS_PER_MIN)
            /\ hist.offRuns >= 1 =>
                   /\ hist.offRuns = 1
                   /\ ~state.fanActiveManual /\ ~state.hrvActive
                   /\ FanActiveEffective(state) = DutyCycleEnabledEffective(state)
                   /\ Idle(Here, "autoOff"))
    /\ [][(pc' = "run" /\ step'.offRuns >= 1 /\ hist.updates = 0
           /\ hist'.updates = 0) =>
              /\ step'.offRuns = 1
              /\ hist.offRuns = 0 /\ hist'.offRuns = 1
              /\ now' = hist.startTick + state.fanTimeoutMinutes * TICKS_PER_MIN]_vars

\* the timer has just fired at t + T*60000 and switched the fan off
C4_Witness ==
    /\ pc = "run"
    /\ step.offRuns = 1 /\ hist.offRuns = 1 /\ hist.updates = 0
    /\ state.fanTimeoutMinutes = 1
    /\ now = hist.startTick + TICKS_PER_MIN
    /\ ~DutyCycleEnabledEffective(state)
    /\ step.raised = <<"fanActive">>
    /\ ~FanActiveEffective(state) /\ ~Energized("fan")
    /\ Idle(Here, "autoOff")

\* C5 (as stated): every manual fan-on write re-arms the timer for t + T*60000,
\* and the auto-off callback never runs before the deadline set by the most
\* recent fan-on write.
C5_Original ==
    [][(pc' = "run" /\ step'.offRuns >= 1 /\ hist.onDeadline >= 0) =>
          now' >= hist.onDeadline]_vars

\* C5 (amended): every manual fan-on write at tick t, also one made while the
\* fan is already on, leaves exactly one registration, for t + T*60000; and
\* the auto-off callback never runs before the deadline set by the most recent
\* fan-on write unless fanTimeoutMinutes has been written since that write.
C5_FanOnRearms ==
    /\ [](pc = "run" =>
            ArmedAt(FanOnHere, "autoOff",
                    now + state.fanTimeoutMinutes * TICKS_PER_MIN))
    /\ [][(pc' = "run" /\ step'.offRuns >= 1 /\ hist.onDeadline >= 0
           /\ ~hist'.tChanged) =>
              now' >= hist.onDeadline]_vars

\* a countdown is pending with an earlier deadline than a fan-on write made now
\* would set
C5_Witness ==
    /\ pc = "run"
    /\ state.fanActiveManual
    /\ tm["autoOff"].running
    /\ hist.onDeadline = tm["autoOff"].stop_ticks
    /\ now > hist.startTick
    /\ FanOnHere.tm["autoOff"].stop_ticks > tm["autoOff"].stop_ticks
    /\ ArmedAt(FanOnHere, "autoOff", now + state.fanTimeoutMinutes * TICKS_PER_MIN)

\* C6 (as stated): every fanTimeoutMinutes write made while the auto-off timer
\* is counting recomputes the deadline as (tick of the most recent
\* AutoOffTimer start) + newT*60000, however many timeout writes came before;
\* a deadline before now + 1000 runs the callback in the write, any other is
\* re-armed exactly.
C6_Original ==
    [][(pc' = "run" /\ tm["autoOff"].running
        /\ Count(step'.raised, "fanTimeout") = 1) =>
          LET D == hist.startTick + state'.fanTimeoutMinutes * TICKS_PER_MIN
          IN IF D < now + FIRE_MARGIN
             THEN step'.offRuns = 1 /\ ~tm'["autoOff"].running
             ELSE /\ step'.offRuns = 0
                  /\ tm'["autoOff"].running
                  /\ tm'["autoOff"].stop_ticks = D
                  /\ \E r \in host' : r.owner = "autoOff" /\ r.deadline = D]_vars

\* C7 (as stated): a fanTimeoutMinutes write whose new timeout is smaller than
\* the time elapsed since the countdown started runs the auto-off callback
\* exactly once inside the write, and the timer is idle, with no registration
\* left, when the write returns.
C7_Original ==
    [][(pc' = "run" /\ tm["autoOff"].running
        /\ Count(step'.raised, "fanTimeout") = 1
        /\ state'.fanTimeoutMinutes * TICKS_PER_MIN < now - hist.startTick) =>
          /\ step'.offRuns = 1
          /\ ~tm'["autoOff"].running
          /\ \A r \in host' : r.owner # "autoOff"]_vars

\* the run of the manual fan-off write handler in the current state
FanOffHere == HandleFurnaceFanActiveOnWrite(Here, 0)

\* C8: a manual fan-off write made while the fan is effectively on clears
\* fanActiveManual, fanActiveAuto and hrvActive; made while the fan is not
\* effectively on it changes no state, saves nothing and raises no event.
C8_FanOff ==
    pc = "run" =>
        IF FanActiveEffective(state)
        THEN /\ ~FanOffHere.state.fanActiveManual
             /\ ~FanOffHere.state.fanActiveAuto
             /\ ~FanOffHere.state.hrvActive
             /\ FanOffHere.kv.rec = FanOffHere.state
        ELSE /\ FanOffHere.state = state
             /\ FanOffHere.kv = kv
             /\ FanOffHere.step = NoStep
             /\ FanOffHere.tm = tm /\ FanOffHere.host = host
             /\ FanOffHere.cache = cache /\ FanOffHere.gpio = gpio

\* a fan-off write has just overridden a duty-cycle on-phase
C8_Witness ==
    /\ pc = "run"
    /\ step.raised = <<"fanActive">>
    /\ step.saves = 1
    /\ step.dcRuns = 0 /\ step.offRuns = 0
    /\ dc.fanActive
    /\ ~state.fanActiveManual /\ ~state.fanActiveAuto /\ ~state.hrvActive
    /\ ~Energized("fan")

\* C9: a run of the auto-off callback changes only fanActiveManual and
\* hrvActive: fanActiveAuto, both mode selectors, fanDutyCycle,
\* fanTimeoutMinutes and the duty-cycle timer stay as they were, so a fan that
\* is in an effective duty-cycle on-phase stays on.
C9_AutoOffFrame ==
    [][(pc' = "run" /\ step'.offRuns >= 1) =>
          /\ ~state'.fanActiveManual /\ ~state'.hrvActive
          /\ state'.fanActiveAuto = state.fanActiveAuto
          /\ state'.fanTargetState = state.fanTargetState
          /\ state'.hrvTargetState = state.hrvTargetState
          /\ state'.fanDutyCycle = state.fanDutyCycle
          /\ state'.version = state.version
          /\ Count(step'.raised, "fanTimeout") = 0 =>
                 state'.fanTimeoutMinutes = state.fanTimeoutMinutes
          /\ tm'["dutyCycle"] = tm["dutyCycle"]
          /\ dc' = dc
          /\ Regs(host', "dutyCycle") = Regs(host, "dutyCycle")
          /\ DutyCycleEnabledEffective(state) =>
                 FanActiveEffective(state') /\ Energized("fan")']_vars

\* the countdown has expired inside a duty-cycle on-phase: the fan stays on
C9_Witness ==
    /\ pc = "run"
    /\ step.offRuns = 1
    /\ step.raised = <<>>
    /\ state.fanActiveAuto /\ state.fanTargetState = Auto
    /\ dc.fanActive /\ tm["dutyCycle"].running
    /\ ~state.fanActiveManual
    /\ FanActiveEffective(state) /\ Energized("fan")

\* C10: when the duty-cycle timer enters its on-phase with fanDutyCycle = d it
\* is armed for d * 60000 * 60 / 100 ticks; with d = 100 that is 3,600,000.
C10_OnPhaseLength ==
    /\ [](OnPhaseTimeoutTicks(100) = 3600000)
    /\ [][(pc' = "run" /\ ~dc.fanActive /\ dc'.fanActive) =>
             /\ step'.dcRuns = 1
             /\ state'.fanActiveAuto
             /\ ArmedAt([tm |-> tm', host |-> host'], "dutyCycle",
                        now' + (state'.fanDutyCycle * 60000 * 60) \div 100)
             /\ state'.fanDutyCycle = 100 =>
                    tm'["dutyCycle"].stop_ticks - now' = 3600000]_vars

C10_Witness ==
    /\ pc = "run"
    /\ step.dcRuns = 1
    /\ dc.fanActive
    /\ state.fanDutyCycle = 100
    /\ tm["dutyCycle"].start_ticks = now
    /\ tm["dutyCycle"].stop_ticks = now + 3600000

\* ticks of one clock hour
HourTicks == 60 * TICKS_PER_MIN

\* the wall-clock position within the hour of tick t, in ticks
WallInHour(t) == (t + wallOffset) % HourTicks

\* tick t is the top of an hour to within the resolution of start_next: the
\* wall clock is read in whole seconds and the delay computed in single
\* precision, so t lies from 1 tick before to 999 ticks after the hour
NearTopOfHour(t) == WallInHour(t) < 1000 \/ WallInHour(t) = HourTicks - 1

\* C11: while fanDutyCycle = 0, no run of the duty-cycle callback sets
\* fanActiveAuto or the timer's phase flag, and each run ends with the timer
\* armed again for the next off-phase boundary, the coming top of the hour.
C11_ZeroDutyNeverOn ==
    [][(pc' = "run" /\ step'.dcRuns >= 1 /\ state'.fanDutyCycle = 0) =>
          /\ ~dc'.fanActive
          /\ ~state'.fanActiveAuto
          /\ ArmedAt([tm |-> tm', host |-> host'], "dutyCycle",
                     now' + OffPhaseTimeoutTicks(tm_min(Here), tm_sec(Here)))
          /\ tm'["dutyCycle"].stop_ticks > now'
          /\ tm'["dutyCycle"].stop_ticks <= now' + HourTicks
          /\ NearTopOfHour(tm'["dutyCycle"].stop_ticks)]_vars

\* an off-phase boundary has passed with fanDutyCycle = 0: still off, armed
\* for the next hour
C11_Witness ==
    /\ pc = "run"
    /\ step.dcRuns = 1
    /\ step.raised = <<>>
    /\ state.fanDutyCycle = 0
    /\ state.fanTargetState = Auto
    /\ ~dc.fanActive /\ ~state.fanActiveAuto
    /\ ~Energized("fan")
    /\ tm["dutyCycle"].start_ticks = now
    /\ ArmedAt(Here, "dutyCycle", now + HourTicks)

\* ------------------------------------------------------------ wall clock

\* the variables hold the machine M
Holds(M) ==
    /\ pc = M.pc /\ now = M.now /\ wallOffset = M.wallOffset
    /\ state = M.state /\ kv = M.kv /\ tm = M.tm /\ dc = M.dc
    /\ host = M.host /\ cache = M.cache /\ gpio = M.gpio
    /\ step = NoStep /\ hist = M.hist

\* the process with store k and wall clock w, before AppCreate
Fresh(k, w) ==
    [pc |-> "boot", now |-> 0, wallOffset |-> w, state |-> ZeroState, kv |-> k,
     tm |-> [t \in TimerNames |-> ZeroTimer],
     dc |-> [minutes_start |-> 0, fanActive |-> FALSE],
     host |-> {}, cache |-> [fan |-> FALSE, hrv |-> FALSE],
     gpio |-> [p \in {"fan", "hrv"} |-> INVERT_OUTPUTS],
     hist |-> NoHist, fault |-> "none", step |-> NoStep]

\* every minute and second of the hour, on and off the whole second
ClockOffsets ==
    {m * TICKS_PER_MIN + sec * 1000 + ms : m \in 0..59, sec \in 0..59, ms \in {0, 500}}

\* corrections of the wall clock delivered by the time service, in ticks
ClockCorrections == {0, 487000}

\* after AppCreate, at any wall-clock time
InitClock ==
    /\ steps = 0
    /\ \E k \in InitStores, w \in ClockOffsets : Holds(AppCreate(Fresh(k, w)))

\* the time service sets the wall clock and notifies the application
ClockCorrect ==
    /\ pc = "run"
    /\ steps < 2
    /\ steps' = steps + 1
    /\ \E c \in ClockCorrections :
         LET w == (wallOffset + c) % HourTicks
             M == sntp_sync_callback([Cur("none") EXCEPT !.wallOffset = w])
         IN /\ pc' = M.pc /\ state' = M.state /\ kv' = M.kv /\ tm' = M.tm
            /\ dc' = M.dc /\ host' = M.host /\ cache' = M.cache /\ gpio' = M.gpio
            /\ step' = M.step /\ hist' = M.hist /\ wallOffset' = w
            /\ UNCHANGED now

NextClock ==
    \/ ClockCorrect
    \/ AdvanceToDeadline
    \/ TimerExpire(NoFaults)

SpecClock == InitClock /\ [][NextClock]_vars

\* the wall-clock minute and second at which the duty-cycle timer was armed
ArmedMin == WallInHour(tm["dutyCycle"].start_ticks) \div TICKS_PER_MIN
ArmedSec == (WallInHour(tm["dutyCycle"].start_ticks) % TICKS_PER_MIN) \div 1000

\* C12 (as stated): whenever the duty-cycle timer is in its off-phase, its
\* pending deadline is the next top of the hour of the wall clock.
C12_Original ==
    (pc = "run" /\ tm["dutyCycle"].running /\ ~dc.fanActive) =>
        WallInHour(tm["dutyCycle"].stop_ticks) = 0

\* C12 (amended): whenever the duty-cycle timer is in its off-phase, its
\* pending deadline is the next top of the hour of the wall clock to within
\* one second (from 1 tick before to 999 ticks after it), whatever tick
\* start_next was called at and also after a wall-clock correction; armed at
\* minute m, second 0 the delay is exactly 60 - m minutes, 60 when m = 0.
C12_OffPhaseNearTopOfHour ==
    (pc = "run" /\ tm["dutyCycle"].running /\ ~dc.fanActive) =>
        /\ ArmedAt(Here, "dutyCycle", tm["dutyCycle"].stop_ticks)
        /\ tm["dutyCycle"].stop_ticks > tm["dutyCycle"].start_ticks
        /\ tm["dutyCycle"].stop_ticks <= tm["dutyCycle"].start_ticks + HourTicks
        /\ NearTopOfHour(tm["dutyCycle"].stop_ticks)
        /\ ArmedSec = 0 =>
               tm["dutyCycle"].stop_ticks - tm["dutyCycle"].start_ticks =
                   (IF ArmedMin = 0 THEN 60 ELSE 60 - ArmedMin) * TICKS_PER_MIN

\* a correction during the off-phase has set the wall clock to minute 50: the
\* timer is armed for 10 minutes
C12_Witness ==
    /\ pc = "run"
    /\ steps = 2
    /\ ~dc.fanActive
    /\ WallInHour(now) = 50 * TICKS_PER_MIN
    /\ tm["dutyCycle"].start_ticks = now
    /\ ArmedAt(Here, "dutyCycle", now + 10 * TICKS_PER_MIN)

\* C13 (as stated): with the duty-cycle timer running, fanTargetState = Auto and
\* no writes or clock corrections, fanActiveAuto is true for d*36000 ticks of
\* every 3,600,000-tick clock hour, for every d in 1..100: an on-phase that
\* began on the hour and ran its d*36000 ticks is followed by an off-phase
\* that ends one hour after the on-phase began (for d = 100, at once).
C13_Original ==
    [][(/\ pc' = "run"
        /\ step'.dcRuns = 1
        /\ dc.fanActive /\ ~dc'.fanActive
        /\ state.fanTargetState = Auto
        /\ state.fanDutyCycle >= 1
        /\ Count(step'.raised, "fanDutyCycle") = 0
        /\ hist.phaseTick >= 0
        /\ WallInHour(hist.phaseTick) = 0
        /\ now' = hist.phaseTick + state.fanDutyCycle * 36000) =>
          tm'["dutyCycle"].stop_ticks = hist.phaseTick + HourTicks]_vars

\* the run of the time-sync notification in the current state
SyncHere == sntp_sync_callback(Here)

\* C14 (as stated): the duty-cycle timer is started once AppCreate has
\* completed and from then on has a pending registration in every quiescent
\* state.
C14_Original ==
    pc = "run" => ArmedAt(Here, "dutyCycle", tm["dutyCycle"].stop_ticks)

\* C14 (amended): AppCreate leaves the duty-cycle timer stopped; the first
\* time-sync notification arms it, and nothing else does; from then on it has
\* a pending registration in every quiescent state: it is never left stopped,
\* only cancelled and immediately re-armed.
C14_ArmedFromFirstSync ==
    /\ [](pc = "run" =>
            /\ ArmedAt(SyncHere, "dutyCycle", SyncHere.tm["dutyCycle"].stop_ticks)
            /\ tm["dutyCycle"].running =>
                   ArmedAt(Here, "dutyCycle", tm["dutyCycle"].stop_ticks))
    /\ [][(pc = "boot" /\ pc' = "run") => Idle([tm |-> tm', host |-> host'], "dutyCycle")]_vars
    /\ [][(pc' = "run" /\ tm["dutyCycle"].running) =>
             ArmedAt([tm |-> tm', host |-> host'], "dutyCycle",
                     tm'["dutyCycle"].stop_ticks)]_vars
    /\ [][(pc' = "run" /\ ~tm["dutyCycle"].running /\ tm'["dutyCycle"].running) =>
             /\ step' = NoStep
             /\ state' = state /\ kv' = kv /\ hist' = hist
             /\ tm'["autoOff"] = tm["autoOff"]]_vars

\* a duty-cycle write during the on-phase has cancelled the registration and
\* armed a new one
C14_Witness ==
    /\ pc = "run"
    /\ step.dcRuns = 0
    /\ Count(step.raised, "fanDutyCycle") = 1
    /\ dc.fanActive
    /\ tm["dutyCycle"].start_ticks = now
    /\ hist.phaseTick >= 0
    /\ tm["dutyCycle"].stop_ticks < hist.phaseTick + HourTicks
    /\ ArmedAt(Here, "dutyCycle", hist.phaseTick + state.fanDutyCycle * 36000)

\* ------------------------------------------------------------ stored records

\* records the store may hold: any version, demand bits and configuration
LoadRecords ==
    [version : {0, STATE_VERSION, 2},
     fanActiveManual : BOOLEAN, fanActiveAuto : BOOLEAN,
     fanTargetState : {Manual, Auto},
     fanTimeoutMinutes : {0, 1, 60}, fanDutyCycle : {0, 10, 100},
     hrvActive : BOOLEAN, hrvTargetState : {Manual, Auto}]

\* what HAPPlatformKeyValueStoreGet may report: no record, a short one, a full one
LoadStores ==
    [found : BOOLEAN, numBytes : {0, SizeofState - 1, SizeofState}, rec : LoadRecords]

InitLoad ==
    /\ steps = 0
    /\ \E k \in LoadStores, w \in WallOffsets : Holds(Fresh(k, w))

SpecLoad == InitLoad /\ [][Boot(NoFaults)]_vars

\* C15: after LoadAccessoryState the three demand bits are false whatever the
\* store contained; a record that is missing, of the wrong size or of another
\* version gives version = STATE_VERSION, fanTargetState = Manual,
\* fanDutyCycle = 10, fanTimeoutMinutes = 60 and zero elsewhere; any other
\* record keeps its stored configuration fields.
C15_LoadClearsDemand ==
    pc = "run" =>
        /\ ~state.fanActiveManual /\ ~state.fanActiveAuto /\ ~state.hrvActive
        /\ IF ~kv.found \/ kv.numBytes # SizeofState \/ kv.rec.version # STATE_VERSION
           THEN state = [version |-> STATE_VERSION,
                         fanActiveManual |-> FALSE, fanActiveAuto |-> FALSE,
                         fanTargetState |-> Manual,
                         fanTimeoutMinutes |-> 60, fanDutyCycle |-> 10,
                         hrvActive |-> FALSE, hrvTargetState |-> 0]
           ELSE /\ state.version = kv.rec.version
                /\ state.fanTargetState = kv.rec.fanTargetState
                /\ state.fanTimeoutMinutes = kv.rec.fanTimeoutMinutes
                /\ state.fanDutyCycle = kv.rec.fanDutyCycle
                /\ state.hrvTargetState = kv.rec.hrvTargetState

\* a valid record with all three demand bits set has been loaded
C15_Witness ==
    /\ pc = "run"
    /\ kv.found /\ kv.numBytes = SizeofState /\ kv.rec.version = STATE_VERSION
    /\ kv.rec.fanActiveManual /\ kv.rec.fanActiveAuto /\ kv.rec.hrvActive
    /\ kv.rec.fanDutyCycle = 100 /\ state.fanDutyCycle = 100
    /\ kv.rec.fanTargetState = Auto /\ state.fanTargetState = Auto
    /\ ~state.fanActiveManual /\ ~state.fanActiveAuto /\ ~state.hrvActive

\* C16: a timeout write never changes fanDutyCycle and a duty-cycle write never
\* changes fanTimeoutMinutes, also when the write makes a timer fire at once;
\* after AppCreate each of the two fields changes only in a write to that
\* field, which leaves the written value in it.
C16_KnobsIndependent ==
    /\ [](pc = "run" =>
            /\ \A v \in TimeoutVals :
                 LET R == HandleFurnaceFanTimeoutOnWrite(Here, v)
                 IN /\ R.state.fanTimeoutMinutes = v
                    /\ R.state.fanDutyCycle = state.fanDutyCycle
            /\ \A v \in DutyVals :
                 LET R == HandleFurnaceFanDutyCycleOnWrite(Here, v)
                 IN /\ R.state.fanDutyCycle = v
                    /\ R.state.fanTimeoutMinutes = state.fanTimeoutMinutes)
    /\ [][(pc = "run" /\ pc' = "run") =>
             /\ state'.fanTimeoutMinutes # state.fanTimeoutMinutes =>
                    /\ Count(step'.raised, "fanTimeout") = 1
                    /\ state'.fanDutyCycle = state.fanDutyCycle
             /\ state'.fanDutyCycle # state.fanDutyCycle =>
                    /\ Count(step'.raised, "fanDutyCycle") = 1
                    /\ state'.fanTimeoutMinutes = state.fanTimeoutMinutes]_vars

\* a timeout write has fired the auto-off callback at once; the duty cycle is
\* as stored
C16_Witness ==
    /\ pc = "run"
    /\ step.offRuns = 1
    /\ Count(step.raised, "fanTimeout") = 1
    /\ state.fanTimeoutMinutes = 0
    /\ state.fanDutyCycle = 100
    /\ kv.rec.fanDutyCycle = 100 /\ kv.rec.fanTimeoutMinutes = 0

\* C17: for each timer object, in every reachable state there is at most one
\* pending registration with the host timer service, and the running flag is
\* true exactly when one is pending (the one the object holds the handle of,
\* for its stop_ticks).
C17_OneRegistrationPerTimer ==
    \A w \in TimerNames :
        /\ Cardinality(Regs(host, w)) <= 1
        /\ tm[w].running <=> Regs(host, w) # {}
        /\ tm[w].running => ArmedAt(Here, w, tm[w].stop_ticks)

\* the duty-cycle timer has re-armed itself inside its expiry callback while
\* the auto-off countdown is pending
C17_Witness ==
    /\ pc = "run"
    /\ step.dcRuns = 1
    /\ tm["dutyCycle"].start_ticks = now
    /\ tm["autoOff"].running /\ tm["dutyCycle"].running
    /\ Cardinality(host) = 2
    /\ hist.updates >= 1

\* ------------------------------------------------------------ platform failures

\* HAPPlatformTimerRegister may fail; the key-value store does not
TimerFaults == {"none", "timer"}

\* as Next, with registrations that may fail
NextFaults ==
    \/ Boot(TimerFaults)
    \/ WriteFanActive(TimerFaults)
    \/ WriteFanTargetState(TimerFaults)
    \/ WriteFanTimeout(TimerFaults)
    \/ WriteFanDutyCycle(TimerFaults)
    \/ WriteHrvActive(TimerFaults)
    \/ WriteHrvTargetState(TimerFaults)
    \/ TimeSync(TimerFaults)
    \/ TimerExpire(TimerFaults)
    \/ Advance
    \/ AdvanceToDeadline

SpecFaults == Init /\ [][NextFaults]_vars

\* the machine in the current state when HAPPlatformTimerRegister fails
RegisterFailsHere == Cur("timer")

\* C18: if registering a deadline with the host timer service fails, the
\* process aborts: the timer is never marked running without a registration,
\* and the handler does nothing after the failed call (no save, no output
\* change, no event).
C18_RegistrationFailureAborts ==
    /\ \A w \in TimerNames : tm[w].running => Regs(host, w) # {}
    /\ pc = "run" =>
         /\ LET R == HandleFurnaceFanActiveOnWrite(RegisterFailsHere, 1)
            IN /\ R.pc = "aborted"
               /\ ~R.tm["autoOff"].running
               /\ R.step = NoStep
               /\ R.kv = kv /\ R.cache = cache /\ R.gpio = gpio
         /\ ~HrvActiveEffective(state) =>
                LET R == HandleHrvActiveOnWrite(RegisterFailsHere, 1)
                IN /\ R.pc = "aborted"
                   /\ ~R.tm["autoOff"].running
                   /\ R.step = NoStep
                   /\ R.kv = kv /\ R.cache = cache /\ R.gpio = gpio
         /\ ~dc.fanActive =>
                LET R == sntp_sync_callback(RegisterFailsHere)
                IN R.pc = "aborted" /\ ~R.tm["dutyCycle"].running
         /\ \A r \in Regs(host, "dutyCycle") :
                LET R == Timer_static_callback(
                             [RegisterFailsHere EXCEPT !.host = TimerDeregister(@, r.id)],
                             "dutyCycle")
                IN R.pc = "aborted" /\ ~R.tm["dutyCycle"].running

\* a fan-on write has aborted in the registration: nothing saved, outputs not
\* driven, the timer not running
C18_Witness ==
    /\ pc = "aborted"
    /\ state.fanActiveManual
    /\ ~tm["autoOff"].running /\ Regs(host, "autoOff") = {}
    /\ step = NoStep
    /\ ~kv.rec.fanActiveManual
    /\ ~cache.fan /\ ~Energized("fan")

\* the outputs and caches of machine M carry its effective values
OutputsFresh(M) ==
    /\ M.cache.fan = FanActiveEffective(M.state)
    /\ M.cache.hrv = HrvActiveEffective(M.state)
    /\ M.gpio["fan"] = Xor(FanActiveEffective(M.state), INVERT_OUTPUTS)
    /\ M.gpio["hrv"] = Xor(HrvActiveEffective(M.state), INVERT_OUTPUTS)

\* C19: every run of the duty-cycle callback (a) from the on-phase enters the
\* off-phase and clears fanActiveAuto, (b) from the off-phase with
\* fanDutyCycle > 0 enters the on-phase and sets fanActiveAuto, (c) then drives
\* the outputs from the new state, and (d) only after that arms the next
\* phase (the outputs are driven even when the arming fails), so the timer is
\* armed again when the step ends.
C19_DutyExpiryOrder ==
    /\ [][(pc' = "run" /\ step'.dcRuns >= 1) =>
             /\ step'.dcRuns = 1
             /\ dc.fanActive => (~dc'.fanActive /\ ~state'.fanActiveAuto)
             /\ (~dc.fanActive /\ state'.fanDutyCycle > 0) =>
                    (dc'.fanActive /\ state'.fanActiveAuto)
             /\ OutputsFresh([cache |-> cache', gpio |-> gpio', state |-> state'])
             /\ tm'["dutyCycle"].start_ticks = now'
             /\ ArmedAt([tm |-> tm', host |-> host'], "dutyCycle",
                        now' + (IF dc'.fanActive
                                THEN state'.fanDutyCycle * 36000
                                ELSE OffPhaseTimeoutTicks(tm_min(Here), tm_sec(Here))))]_vars
    /\ [](pc = "run" =>
            \A r \in Regs(host, "dutyCycle") :
                LET R == Timer_static_callback(
                             [RegisterFailsHere EXCEPT !.host = TimerDeregister(@, r.id)],
                             "dutyCycle")
                IN /\ R.pc = "aborted"
                   /\ R.dc.fanActive = (~dc.fanActive /\ state.fanDutyCycle > 0)
                   /\ OutputsFresh(R))

\* an expiry has entered the on-phase: demand set, fan driven on, event
\* raised, timer armed for the on-phase
C19_Witness ==
    /\ pc = "run"
    /\ step.dcRuns = 1
    /\ dc.fanActive /\ state.fanActiveAuto
    /\ hist.phaseTick = now
    /\ Energized("fan")
    /\ Count(step.raised, "fanActive") = 1
    /\ ArmedAt(Here, "dutyCycle", now + state.fanDutyCycle * 36000)

\* ------------------------------------------------------------ on-phase

\* the process with store k and wall clock w after AppCreate, the first time
\* sync and the expiry of the off-phase it armed
FirstExpiry(k, w) ==
    LET M1 == sntp_sync_callback(AppCreate(Fresh(k, w)))
        M2 == [M1 EXCEPT !.now = M1.tm["dutyCycle"].stop_ticks,
                         !.host = TimerDeregister(@, M1.tm["dutyCycle"].timer)]
    IN Timer_static_callback(M2, "dutyCycle")

InitOnPhase ==
    /\ steps = 0
    /\ \E k \in InitStores, w \in WallOffsets : Holds(FirstExpiry(k, w))

NextOnPhase ==
    \/ WriteFanDutyCycle(NoFaults)
    \/ TimerExpire(NoFaults)
    \/ Advance
    \/ AdvanceToDeadline

SpecOnPhase == InitOnPhase /\ [][NextOnPhase]_vars

\* C20 (as stated): for any number of duty-cycle writes during one on-phase,
\* after each write the on-phase ends at (tick at which the on-phase was
\* entered) + new fanDutyCycle * 36000, or at once within the write if that
\* tick is earlier than now + 1000.
C20_Original ==
    [][(pc' = "run" /\ dc.fanActive /\ Count(step'.raised, "fanDutyCycle") = 1) =>
          LET D == hist.phaseTick + state'.fanDutyCycle * 36000
          IN IF D < now + FIRE_MARGIN
             THEN step'.dcRuns = 1 /\ ~dc'.fanActive
             ELSE /\ step'.dcRuns = 0
                  /\ dc'.fanActive
                  /\ ArmedAt([tm |-> tm', host |-> host'], "dutyCycle", D)]_vars

\* the run of a duty-cycle write of v in the current state
DutyWriteHere(v) == HandleFurnaceFanDutyCycleOnWrite(Here, v)

\* machine M once the clock has reached the deadline of its duty-cycle timer
\* and the host has delivered that registration
NextDutyExpiry(M) ==
    Timer_static_callback(
        [M EXCEPT !.now = M.tm["dutyCycle"].stop_ticks,
                  !.host = TimerDeregister(@, M.tm["dutyCycle"].timer),
                  !.step = NoStep],
        "dutyCycle")

\* C21: a duty-cycle write during the off-phase changes only fanDutyCycle and
\* saves it: the phase flag, the timer with its pending deadline, fanActiveAuto
\* and the outputs stay as they were and no callback runs; the expiry of the
\* unchanged deadline then enters an on-phase of (new value) * 36000 ticks.
C21_OffPhaseDutyWrite ==
    /\ [][(pc' = "run" /\ ~dc.fanActive /\ Count(step'.raised, "fanDutyCycle") = 1) =>
             /\ state'.fanDutyCycle # state.fanDutyCycle
             /\ state' = [state EXCEPT !.fanDutyCycle = state'.fanDutyCycle]
             /\ kv'.rec = state' /\ step'.saves = 1
             /\ dc' = dc /\ tm' = tm /\ host' = host
             /\ cache' = cache /\ gpio' = gpio
             /\ step'.raised = <<"fanDutyCycle">>
             /\ step'.dcRuns = 0 /\ step'.offRuns = 0]_vars
    /\ []((pc = "run" /\ ~dc.fanActive /\ tm["dutyCycle"].running) =>
            \A v \in DutyVals \ {0, state.fanDutyCycle} :
                LET E == NextDutyExpiry(DutyWriteHere(v))
                IN /\ E.dc.fanActive /\ E.state.fanActiveAuto
                   /\ ArmedAt(E, "dutyCycle",
                              tm["dutyCycle"].stop_ticks + v * 36000))

\* a duty-cycle write of 1 has arrived in the off-phase with the timer pending
C21_Witness ==
    /\ pc = "run"
    /\ step.raised = <<"fanDutyCycle">>
    /\ step.saves = 1
    /\ ~dc.fanActive /\ ~state.fanActiveAuto
    /\ state.fanDutyCycle = 1 /\ kv.rec.fanDutyCycle = 1
    /\ tm["dutyCycle"].start_ticks < now
    /\ ArmedAt(Here, "dutyCycle", tm["dutyCycle"].stop_ticks)
    /\ NextDutyExpiry(Here).tm["dutyCycle"].timeout_ticks = 36000

\* the current state with the wall clock set to offset w by the time service
ClockSetHere(w) == [Here EXCEPT !.wallOffset = w]

\* C22: a clock-sync notification during the on-phase changes nothing (the
\* on-phase deadline, the phase flag, fanActiveAuto, the outputs and all the
\* rest are as before); during the off-phase it changes only the duty-cycle
\* timer's registration, armed anew for the top of the hour of the new clock.
C22_ClockSyncFrame ==
    pc = "run" =>
        \A w \in WallOffsets :
            LET B == ClockSetHere(w)
                R == sntp_sync_callback(B)
            IN IF dc.fanActive
               THEN R = B
               ELSE /\ R.pc = "run" /\ R.step = NoStep
                    /\ R.state = state /\ R.dc = dc /\ R.kv = kv
                    /\ R.cache = cache /\ R.gpio = gpio /\ R.hist = hist
                    /\ R.tm["autoOff"] = tm["autoOff"]
                    /\ Regs(R.host, "autoOff") = Regs(host, "autoOff")
                    /\ ArmedAt(R, "dutyCycle",
                               now + OffPhaseTimeoutTicks(tm_min(B), tm_sec(B)))

\* the wall clock has been corrected in the middle of an on-phase: the
\* on-phase still ends when it was going to, the fan is still on
C22_Witness ==
    /\ pc = "run"
    /\ step = NoStep
    /\ dc.fanActive /\ state.fanActiveAuto
    /\ hist.phaseTick >= 0
    /\ WallInHour(hist.phaseTick) # 0
    /\ Energized("fan")
    /\ tm["dutyCycle"].start_ticks = hist.phaseTick
    /\ ArmedAt(Here, "dutyCycle", hist.phaseTick + state.fanDutyCycle * 36000)

\* ------------------------------------------------------------ progress

\* The host's run loop, outside the count of events: it keeps time moving to
\* the next pending deadline and delivers every registration whose deadline
\* has come.

\* a registration is due
HostDue ==
    /\ pc = "run"
    /\ \E r \in host : r.deadline <= now

\* HAPPlatformTimer delivers a due registration
HostDelivers ==
    /\ pc = "run"
    /\ steps' = steps
    /\ \E r \in host :
         /\ r.deadline <= now
         /\ Commit(Timer_static_callback(
                [Cur("none") EXCEPT !.host = TimerDeregister(@, r.id)], r.owner))

\* the clock reaches the next pending deadline
HostClockRuns ==
    /\ pc = "run"
    /\ steps' = steps
    /\ host # {}
    /\ LET next == Min({r.deadline : r \in host})
       IN /\ next > now
          /\ next <= MaxNow
          /\ now' = next
    /\ step' = NoStep
    /\ UNCHANGED <<pc, wallOffset, state, kv, tm, dc, host, cache, gpio, hist>>

\* Weak fairness of both.  HostDelivers is enabled exactly when HostDue holds
\* (its other conjuncts assign the primed variables, and a delivery always
\* changes the registrations), so its fairness is written out by the
\* definition of WF with HostDue for ENABLED <<HostDelivers>>_vars.
HostProgress ==
    /\ WF_vars(HostClockRuns)
    /\ ([]<>(~HostDue) \/ []<><<HostDelivers>>_vars)

\* duty-cycle writes at any time from the first boundary on, and the host
NextDutyProgress ==
    \/ WriteFanDutyCycle(NoFaults)
    \/ HostDelivers
    \/ HostClockRuns

\* the stored duty cycle is 0: the first boundary has passed with the on-phase
\* suppressed, and the timer is armed for the next one
InitSuppressed ==
    /\ steps = 0
    /\ \E k \in InitStores, w \in WallOffsets :
         /\ k.rec.fanDutyCycle = 0
         /\ Holds(FirstExpiry(k, w))

SpecDutyProgress == InitSuppressed /\ [][NextDutyProgress]_vars /\ HostProgress

\* C23: with the duty-cycle timer started, once fanDutyCycle has been written
\* to a value > 0 during the off-phase (from 0 in particular) and is not
\* written back to 0, the timer enters the on-phase and sets fanActiveAuto at
\* an off-phase boundary, with no other write, clock sync or restart; checked
\* for every boundary that lies within the clock bound of the model.
C23_NonZeroTakesEffect ==
    (/\ pc = "run"
     /\ Count(step.raised, "fanDutyCycle") = 1
     /\ state.fanDutyCycle > 0
     /\ ~dc.fanActive
     /\ tm["dutyCycle"].stop_ticks <= MaxNow)
    ~> (\/ /\ step.dcRuns = 1
           /\ dc.fanActive /\ state.fanActiveAuto
           /\ hist.phaseTick = now /\ NearTopOfHour(now)
        \/ state.fanDutyCycle = 0)

\* the stored duty cycle was 0 and the first boundary was suppressed; a write
\* of 1 followed, the clock ran to the next boundary, an hour later, and the
\* expiry there entered the on-phase
C23_Witness ==
    /\ pc = "run"
    /\ steps = 1
    /\ now >= HourTicks
    /\ step.dcRuns = 1
    /\ state.fanDutyCycle = 1
    /\ dc.fanActive /\ state.fanActiveAuto
    /\ hist.phaseTick = now
    /\ Energized("fan")
    /\ ArmedAt(Here, "dutyCycle", now + 36000)

\* number of external events in the runs that follow a countdown to its end
MaxCountdownEvents == 4

\* every event that bears on the countdown, at any time, and the host
NextCountdown ==
    \/ Boot(NoFaults)
    \/ /\ steps < MaxCountdownEvents
       /\ \/ WriteFanActive(NoFaults)
          \/ WriteHrvActive(NoFaults)
          \/ WriteFanTimeout(NoFaults)
          \/ WriteFanDutyCycle(NoFaults)
          \/ TimeSync(NoFaults)
          \/ Advance
    \/ HostDelivers
    \/ HostClockRuns

SpecCountdown == Init /\ [][NextCountdown]_vars /\ HostProgress

C25_ManualImpliesCountdown ==
    (pc = "run" /\ state.fanActiveManual) =>
        /\ ArmedAt(Here, "autoOff", tm["autoOff"].stop_ticks)
        /\ tm["autoOff"].stop_ticks >= now

\* an HRV-on write has set the fan demand, and a later timeout write has
\* cancelled the countdown and armed it again
C25_Witness ==
    /\ pc = "run"
    /\ state.fanActiveManual /\ state.hrvActive
    /\ Count(step.raised, "fanTimeout") = 1
    /\ step.offRuns = 0
    /\ hist.updates >= 1
    /\ tm["autoOff"].start_ticks = now
    /\ now > hist.startTick
    /\ ArmedAt(Here, "autoOff", tm["autoOff"].stop_ticks)

\* C26: in every reachable quiescent state, hrvActive = true implies
\* fanActiveManual = true: no sequence of writes and timer expiries leaves the
\* ventilator manually demanded while the manual fan demand is off.
C26_HrvImpliesManual ==
    (pc = "run" /\ state.hrvActive) => state.fanActiveManual

\* an HRV-on write has just set the ventilator demand, and the fan demand
\* with it, on a fan that was off
C26_Witness ==
    /\ pc = "run"
    /\ step.saves = 1
    /\ step.raised = <<"fanActive", "hrvActive">>
    /\ state.hrvActive /\ state.fanActiveManual
    /\ ~state.fanActiveAuto
    /\ hist.startTick = now /\ now > 0
    /\ Energized("fan") /\ Energized("hrv")

\* the run of the HRV-off write handler in the current state
HrvOffHere == HandleHrvActiveOnWrite(Here, 0)

\* C27: in every quiescent state, fanActiveAuto = true implies that the
\* duty-cycle timer is in its on-phase with a pending registration; an
\* on-phase with fanActiveAuto = false arises only from an on-phase with
\* fanActiveAuto = true by a fan-off or HRV-off write, the manual override.
C27_AutoImpliesOnPhase ==
    /\ []((pc = "run" /\ state.fanActiveAuto) =>
            /\ dc.fanActive
            /\ ArmedAt(Here, "dutyCycle", tm["dutyCycle"].stop_ticks))
    /\ [][(/\ pc' = "run"
           /\ dc'.fanActive /\ ~state'.fanActiveAuto
           /\ ~(dc.fanActive /\ ~state.fanActiveAuto)) =>
             /\ dc.fanActive /\ state.fanActiveAuto
             /\ step'.saves = 1
             /\ step'.dcRuns = 0 /\ step'.offRuns = 0
             /\ \/ /\ state' = FanOffHere.state /\ step' = FanOffHere.step
                   /\ FanActiveEffective(state)
                \/ /\ state' = HrvOffHere.state /\ step' = HrvOffHere.step
                   /\ HrvActiveEffective(state)]_vars

\* an HRV-off write has overridden the on-phase under a fan that is manually
\* on: the timer is still in its on-phase, fanActiveAuto is false
C27_Witness ==
    /\ pc = "run"
    /\ step.saves = 1
    /\ step.raised = <<"hrvActive">>
    /\ dc.fanActive /\ ~state.fanActiveAuto
    /\ state.fanActiveManual /\ ~state.hrvActive
    /\ Energized("fan") /\ ~Energized("hrv")
    /\ ArmedAt(Here, "dutyCycle", hist.phaseTick + state.fanDutyCycle * 36000)

\* C28: in every quiescent state, fanDutyCycle = 0 implies fanActiveAuto =
\* false and the duty-cycle timer is not in its on-phase; a duty-cycle write of
\* 0 in the middle of an on-phase ends the on-phase within the write.
C28_ZeroDutyMeansOff ==
    /\ []((pc = "run" /\ state.fanDutyCycle = 0) =>
            ~state.fanActiveAuto /\ ~dc.fanActive)
    /\ []((pc = "run" /\ dc.fanActive) =>
            LET R == DutyWriteHere(0)
            IN /\ R.step.dcRuns = 1
               /\ ~R.dc.fanActive /\ ~R.state.fanActiveAuto
               /\ R.state.fanDutyCycle = 0
               /\ OutputsFresh(R))

\* a duty-cycle write of 0 has arrived in the middle of an on-phase: the
\* callback ran in the write, the fan went off, the timer is armed for the
\* top of the hour
C28_Witness ==
    /\ pc = "run"
    /\ Count(step.raised, "fanDutyCycle") = 1
    /\ Count(step.raised, "fanActive") = 1
    /\ step.dcRuns = 1
    /\ state.fanDutyCycle = 0
    /\ ~dc.fanActive /\ ~state.fanActiveAuto
    /\ ~Energized("fan")
    /\ WallInHour(now) >= 1000
    /\ tm["dutyCycle"].start_ticks = now
    /\ ArmedAt(Here, "dutyCycle", tm["dutyCycle"].stop_ticks)

\* C29: right after a manual fan-off write, whatever state it was made in,
\* FanActiveEffective and HrvActiveEffective are both false, and both outputs
\* are driven off.
C29_FanOffSilencesBoth ==
    pc = "run" =>
        /\ ~FanActiveEffective(FanOffHere.state)
        /\ ~HrvActiveEffective(FanOffHere.state)
        /\ OutputsFresh(FanOffHere)
        /\ FanOffHere.gpio = [p \in {"fan", "hrv"} |-> INVERT_OUTPUTS]

\* a fan-off write has cleared a manual fan and ventilator demand whose
\* countdown is still pending: both outputs are off
C29_Witness ==
    /\ pc = "run"
    /\ step.saves = 1
    /\ step.raised = <<"fanActive", "hrvActive">>
    /\ step.offRuns = 0 /\ step.dcRuns = 0
    /\ ~dc.fanActive
    /\ tm["autoOff"].running
    /\ ~FanActiveEffective(state) /\ ~HrvActiveEffective(state)
    /\ ~Energized("fan") /\ ~Energized("hrv")

\* C30: once a fan-off or HRV-off write has cleared fanActiveAuto during an
\* on-phase, fanActiveAuto stays false as long as that on-phase lasts,
\* whatever timer expiry, duty-cycle write or clock sync comes; it becomes
\* true only in a run of the duty-cycle callback that enters an on-phase; the
\* overridden on-phase ends at its deadline, and with fanDutyCycle > 0 the
\* boundary after that sets fanActiveAuto again.
C30_OverrideLastsOnPhase ==
    /\ [][(pc' = "run" /\ ~state.fanActiveAuto /\ state'.fanActiveAuto) =>
             /\ step'.dcRuns = 1
             /\ ~dc.fanActive /\ dc'.fanActive
             /\ hist'.phaseTick = now']_vars
    /\ [][(pc' = "run" /\ dc.fanActive /\ ~state.fanActiveAuto /\ dc'.fanActive) =>
             /\ ~state'.fanActiveAuto
             /\ hist'.phaseTick = hist.phaseTick]_vars
    /\ []((pc = "run" /\ dc.fanActive /\ ~state.fanActiveAuto) =>
            LET E1 == NextDutyExpiry(Here)
                E2 == NextDutyExpiry(E1)
            IN /\ ~E1.dc.fanActive /\ ~E1.state.fanActiveAuto
               /\ E2.now > E1.now
               /\ state.fanDutyCycle > 0 =>
                      E2.dc.fanActive /\ E2.state.fanActiveAuto)

\* a fan-off write has overridden the on-phase, and a duty-cycle write has
\* then re-armed the same on-phase: fanActiveAuto is still false, the fan off
C30_Witness ==
    /\ pc = "run"
    /\ Count(step.raised, "fanDutyCycle") = 1
    /\ step.dcRuns = 0
    /\ dc.fanActive /\ ~state.fanActiveAuto
    /\ ~state.fanActiveManual
    /\ state.fanTargetState = Auto /\ state.fanDutyCycle > 0
    /\ ~Energized("fan")
    /\ tm["dutyCycle"].start_ticks = now
    /\ ArmedAt(Here, "dutyCycle", tm["dutyCycle"].stop_ticks)

\* ------------------------------------------------------------ the store

\* the record a previous run saved, and the same record under another version
SavedRecord ==
    [version |-> STATE_VERSION,
     fanActiveManual |-> TRUE, fanActiveAuto |-> TRUE, fanTargetState |-> Auto,
     fanTimeoutMinutes |-> 1, fanDutyCycle |-> 100,
     hrvActive |-> TRUE, hrvTargetState |-> Auto]

\* what the store may hold at startup: the saved record, a record of another
\* version, no record
StartStores ==
    {[found |-> TRUE, numBytes |-> SizeofState, rec |-> SavedRecord],
     [found |-> TRUE, numBytes |-> SizeofState,
      rec |-> [SavedRecord EXCEPT !.version = STATE_VERSION + 1]],
     [found |-> FALSE, numBytes |-> 0, rec |-> ZeroState]}

InitStore ==
    /\ steps = 0
    /\ \E k \in StartStores, w \in WallOffsets : Holds(Fresh(k, w))

SpecStore == InitStore /\ [][Next]_vars

\* the store holds a record LoadAccessoryState would accept
ValidRecord(k) ==
    k.found /\ k.numBytes = SizeofState /\ k.rec.version = STATE_VERSION

\* record r and state s agree on the configuration fields
SameConfiguration(r, s) ==
    /\ r.fanTargetState = s.fanTargetState
    /\ r.fanTimeoutMinutes = s.fanTimeoutMinutes
    /\ r.fanDutyCycle = s.fanDutyCycle
    /\ r.hrvTargetState = s.hrvTargetState

\* C31 (as stated): in every quiescent state the record held by the store
\* agrees with the state in memory on fanTargetState, fanTimeoutMinutes,
\* fanDutyCycle and hrvTargetState.
C31_Original ==
    (pc = "run" /\ kv.found) => SameConfiguration(kv.rec, state)

\* C31 (amended): in every quiescent state a record of the current version
\* and size held by the store agrees with the state in memory on
\* fanTargetState, fanTimeoutMinutes, fanDutyCycle and hrvTargetState (the
\* demand bits may differ); a record that startup rejected is not replaced by
\* the defaults that startup set, and stays in the store until the first
\* write that saves, the memory holding the defaults until then.
C31_ValidRecordAgrees ==
    pc = "run" =>
        IF ValidRecord(kv)
        THEN SameConfiguration(kv.rec, state)
        ELSE /\ state.fanTargetState = Manual
             /\ state.fanTimeoutMinutes = DefaultFanTimeoutMinutes
             /\ state.fanDutyCycle = DefaultFanDutyCycle
             /\ state.hrvTargetState = 0

\* a duty-cycle write saved while the fan was manually on, and the countdown
\* has since expired: the store still shows the fan demand the last save saw,
\* the configuration agrees
C31_Witness ==
    /\ pc = "run"
    /\ step.offRuns = 1
    /\ ValidRecord(kv)
    /\ kv.rec.fanActiveManual /\ ~state.fanActiveManual
    /\ state.fanTargetState = Manual
    /\ state.fanDutyCycle = 1 /\ kv.rec.fanDutyCycle = 1
    /\ SameConfiguration(kv.rec, state)

\* the run of the HRV-on write handler in the current state
HrvOnHere == HandleHrvActiveOnWrite(Here, 1)

\* C32: an HRV write whose value equals the current HrvActiveEffective changes
\* nothing; in particular an HRV-on write while the ventilator is on only
\* through an effective duty-cycle on-phase leaves hrvActive and
\* fanActiveManual false, does not start the auto-off timer, saves nothing
\* and raises no event.
C32_SameValueHrvWrite ==
    pc = "run" =>
        /\ HrvActiveEffective(state) => HrvOnHere = Here
        /\ ~HrvActiveEffective(state) => HrvOffHere = Here
        /\ (HrvActiveEffective(state) /\ ~state.hrvActive) =>
               /\ ~HrvOnHere.state.hrvActive
               /\ HrvOnHere.state.fanActiveManual = state.fanActiveManual
               /\ HrvOnHere.tm = tm /\ HrvOnHere.host = host
               /\ HrvOnHere.kv = kv
               /\ HrvOnHere.step = NoStep

\* the on-phase has just been entered and the ventilator runs through it
\* alone; an event at the same tick, an HRV-on write for one, has left
\* everything as it was: no manual demand, no countdown
C32_Witness ==
    /\ pc = "run"
    /\ step = NoStep
    /\ dc.fanActive /\ hist.phaseTick = now
    /\ HrvActiveEffective(state) /\ Energized("hrv")
    /\ ~state.hrvActive /\ ~state.fanActiveManual
    /\ Idle(Here, "autoOff")
    /\ hist.startTick = -1
    /\ HrvOnHere = Here

\* C33: a fan mode write that changes fanTargetState while fanActiveAuto is
\* true takes effect within the step: to Auto, the fan is effective and driven
\* on, and the ventilator too if hrvTargetState = Auto; to Manual, fan and
\* ventilator are effective exactly as far as fanActiveManual and hrvActive
\* hold them on; either way only fanTargetState changes (and is saved):
\* fanActiveAuto, the phase flag and both timers with their deadlines stay.
C33_ModeWriteTakesEffect ==
    [][(pc' = "run" /\ Count(step'.raised, "fanTargetState") = 1
        /\ state.fanActiveAuto) =>
          /\ state'.fanTargetState # state.fanTargetState
          /\ state' = [state EXCEPT !.fanTargetState = state'.fanTargetState]
          /\ kv'.rec = state' /\ step'.saves = 1
          /\ state'.fanActiveAuto
          /\ dc' = dc /\ tm' = tm /\ host' = host
          /\ step'.dcRuns = 0 /\ step'.offRuns = 0
          /\ OutputsFresh([cache |-> cache', gpio |-> gpio', state |-> state'])
          /\ IF state'.fanTargetState = Auto
             THEN /\ FanActiveEffective(state') /\ Energized("fan")'
                  /\ state.hrvTargetState = Auto =>
                         HrvActiveEffective(state') /\ Energized("hrv")'
             ELSE /\ FanActiveEffective(state') = state.fanActiveManual
                  /\ Energized("fan")' = state.fanActiveManual
                  /\ HrvActiveEffective(state') = state.hrvActive
                  /\ Energized("hrv")' = state.hrvActive]_vars

\* in the middle of an on-phase the mode has been written from Manual to
\* Auto: fan and ventilator have come on in the write
C33_Witness ==
    /\ pc = "run"
    /\ step.raised = <<"fanActive", "hrvActive", "fanTargetState">>
    /\ step.saves = 1
    /\ state.fanTargetState = Auto /\ kv.rec.fanTargetState = Auto
    /\ state.fanActiveAuto /\ dc.fanActive
    /\ ~state.fanActiveManual /\ ~state.hrvActive
    /\ Energized("fan") /\ Energized("hrv")
    /\ ArmedAt(Here, "dutyCycle", hist.phaseTick + state.fanDutyCycle * 36000)

====
